---------------------------- MODULE Spec2Model ----------------------------
(***************************************************************************)
(* A model of draft-js-export-html (src/src/stateToHTML.js): the           *)
(* MarkupGenerator that walks the flat, depth-annotated block list of a    *)
(* document and emits nested HTML, together with the pure helpers it uses  *)
(* (tag tables, whitespace preservation, escaping, entity attributes).     *)
(*                                                                         *)
(* Strings are sequences.  Text that comes from the document (block text,  *)
(* entity data) is a sequence of one-character strings, and so is          *)
(* everything the escaping functions produce ("&amp;" is the five          *)
(* characters & a m p ;).  The literal pieces of the template strings of   *)
(* the generator ("<li>", "</ul>", "<a", ...) are single elements.  The    *)
(* generator's output array is a sequence of such fragments and join('')   *)
(* is their concatenation.                                                 *)
(***************************************************************************)
EXTENDS Integers, Sequences, FiniteSets, TLC

VARIABLES
    build,            \* the source file of the running module
    blocks,           \* contentState.getBlocksAsArray(): the document
    checkedStateMap,  \* block key -> BOOLEAN, absent keys not in the domain
    entityMap,        \* the Entity registry: entity key -> [type, data]
    output,           \* this.output: the fragments pushed so far
    currentBlock,     \* this.currentBlock (0-based, as in the source)
    totalBlocks,      \* this.totalBlocks
    indentLevel,      \* this.indentLevel
    wrapperTag,       \* this.wrapperTag: "ul", "ol" or Null
    stack,            \* the processBlock calls suspended in processBlocksAtDepth
    result,           \* the value returned by the call
    pc                \* where the call is

vars == <<build, blocks, checkedStateMap, entityMap, output, currentBlock,
          totalBlocks, indentLevel, wrapperTag, stack, result, pc>>

-----------------------------------------------------------------------------
(* Values of the host language *)

STATE_TO_HTML == "src/stateToHTML.js"   \* the module with COLOR_STYLE_MAP
PART_000 == "unnamed/part_000"          \* the module with OLD_INLINE_STYLES
Builds == {STATE_TO_HTML, PART_000}

Null == "null"                  \* null / undefined where a string or key is expected
JsNull == <<"%null">>           \* a data value that is null
JsUndefined == <<"%undefined">> \* a data value that is undefined
NBSP == "xA0"                   \* the character \xA0
NL == "\n"                      \* the newline character
SP == " "

RECURSIVE Join(_)
\* Array.prototype.join(''): the concatenation of the fragments.
Join(frags) ==
    IF frags = <<>> THEN <<>> ELSE Head(frags) \o Join(Tail(frags))

RECURSIVE JoinWith(_, _)
\* Array.prototype.join(sep) for a separator string sep.
JoinWith(frags, sep) ==
    IF frags = <<>> THEN <<>>
    ELSE IF Len(frags) = 1 THEN Head(frags)
    ELSE Head(frags) \o sep \o JoinWith(Tail(frags), sep)

RECURSIVE SplitJoin(_, _, _)
\* text.split(c).join(r) for a one-character separator c: every occurrence
\* of c is replaced by the string r.
SplitJoin(text, c, r) ==
    IF text = <<>> THEN <<>>
    ELSE (IF Head(text) = c THEN r ELSE <<Head(text)>>) \o SplitJoin(Tail(text), c, r)

-----------------------------------------------------------------------------
(* Constants of the source *)

INDENT == "  "
BREAK == <<"<", "b", "r", "/", ">">>

AMP == <<"&", "a", "m", "p", ";">>
LT == <<"&", "l", "t", ";">>
GT == <<"&", "g", "t", ";">>
QUOT == <<"&", "q", "u", "o", "t", ";">>
NBSPENT == <<"&", "n", "b", "s", "p", ";">>

BOLD == "BOLD"
CODE == "CODE"
ITALIC == "ITALIC"
STRIKETHROUGH == "STRIKETHROUGH"
UNDERLINE == "UNDERLINE"

LINK == "LINK"
IMAGE == "IMAGE"

UNSTYLED == "unstyled"
HEADER_ONE == "header-one"
HEADER_TWO == "header-two"
HEADER_THREE == "header-three"
HEADER_FOUR == "header-four"
HEADER_FIVE == "header-five"
HEADER_SIX == "header-six"
UNORDERED_LIST_ITEM == "unordered-list-item"
ORDERED_LIST_ITEM == "ordered-list-item"
CHECKABLE_LIST_ITEM == "checkable-list-item"
BLOCKQUOTE == "blockquote"
CODE_BLOCK == "code-block"
ATOMIC == "atomic"

-----------------------------------------------------------------------------
(* Escaping and whitespace *)

encodeContentAmpLast(text) ==
    SplitJoin(SplitJoin(SplitJoin(SplitJoin(SplitJoin(text,
        "<", LT), ">", GT), "&", AMP), NBSP, NBSPENT), NL, BREAK \o <<NL>>)

encodeContent(text) ==
    SplitJoin(SplitJoin(SplitJoin(SplitJoin(SplitJoin(text,
        "&", AMP), "<", LT), ">", GT), NBSP, NBSPENT), NL, BREAK \o <<NL>>)

encodeAttr(text) ==
    SplitJoin(SplitJoin(SplitJoin(SplitJoin(text,
        "&", AMP), "<", LT), ">", GT), "\"", QUOT)

preserveWhitespaceEitherSide(text) ==
    [i \in 1..Len(text) |->
        IF text[i] = SP
           /\ (i = 1 \/ i = Len(text) \/ text[i - 1] = SP \/ text[i + 1] = SP)
        THEN NBSP ELSE text[i]]

preserveWhitespace(text) ==
    [i \in 1..Len(text) |->
        IF text[i] = SP /\ (i = 1 \/ i = Len(text) \/ text[i - 1] = SP)
        THEN NBSP ELSE text[i]]

-----------------------------------------------------------------------------
(* Lookup tables *)

\* ENTITY_ATTR_MAP[entityType], as the ordered list of its (data key, attribute) pairs.
ENTITY_ATTR_MAP(entityType) ==
    CASE entityType = LINK ->
           << <<"url", "href">>, <<"rel", "rel">>, <<"target", "target">>,
              <<"title", "title">> >>
      [] entityType = IMAGE ->
           << <<"src", "src">>, <<"alt", "alt">>, <<"data-original-url", "href">> >>
      [] OTHER -> <<>>

\* COLOR_STYLE_MAP in the order of Object.keys: (label, CSS property, value).
COLOR_STYLE_MAP ==
    << <<"TEXT_DEFAULT", "color", "#878787">>,
       <<"TEXT_WHITE", "color", "#fff">>,
       <<"TEXT_BLACK", "color", "#000">>,
       <<"TEXT_RED", "color", "rgb(255, 0, 0)">>,
       <<"TEXT_ORANGE", "color", "rgb(255, 127, 0)">>,
       <<"TEXT_YELLOW", "color", "rgb(180, 180, 0)">>,
       <<"TEXT_GREEN", "color", "rgb(0, 180, 0)">>,
       <<"TEXT_BLUE", "color", "rgb(0, 0, 255)">>,
       <<"TEXT_INDIGO", "color", "rgb(75, 0, 130)">>,
       <<"TEXT_VIOLET", "color", "rgb(127, 0, 255)">>,
       <<"BACKGROUND_DEFAULT", "backgroundColor", "#fff">>,
       <<"BACKGROUND_BLACK", "backgroundColor", "#000">>,
       <<"BACKGROUND_RED", "backgroundColor", "rgb(255, 0, 0)">>,
       <<"BACKGROUND_ORANGE", "backgroundColor", "rgb(255, 127, 0)">>,
       <<"BACKGROUND_YELLOW", "backgroundColor", "rgb(180, 180, 0)">>,
       <<"BACKGROUND_GREEN", "backgroundColor", "rgb(0, 180, 0)">>,
       <<"BACKGROUND_BLUE", "backgroundColor", "rgb(0, 0, 255)">>,
       <<"BACKGROUND_INDIGO", "backgroundColor", "rgb(75, 0, 130)">>,
       <<"BACKGROUND_VIOLET", "backgroundColor", "rgb(127, 0, 255)">> >>

\* OLD_COLORS of part_000.
OLD_COLORS ==
    <<"rgb(0, 0, 0)", "rgb(230, 0, 0)", "rgb(255, 153, 0)", "rgb(255, 255, 0)",
      "rgb(0, 138, 0)", "rgb(0, 102, 204)", "rgb(153, 51, 255)", "rgb(255, 255, 255)",
      "rgb(250, 204, 204)", "rgb(255, 235, 204)", "rgb(255, 255, 204)", "rgb(204, 232, 204)",
      "rgb(204, 224, 245)", "rgb(235, 214, 255)", "rgb(187, 187, 187)", "rgb(240, 102, 102)",
      "rgb(255, 194, 102)", "rgb(255, 255, 102)", "rgb(102, 185, 102)", "rgb(102, 163, 224)",
      "rgb(194, 133, 255)", "rgb(136, 136, 136)", "rgb(161, 0, 0)", "rgb(178, 107, 0)",
      "rgb(178, 178, 0)", "rgb(0, 97, 0)", "rgb(0, 71, 178)", "rgb(107, 36, 178)",
      "rgb(68, 68, 68)", "rgb(92, 0, 0)", "rgb(102, 61, 0)", "rgb(102, 102, 0)",
      "rgb(0, 55, 0)", "rgb(0, 41, 102)", "rgb(61, 20, 10)">>

\* OLD_INLINE_STYLES_SIZE of part_000: (label, CSS property, value).
OLD_INLINE_STYLES_SIZE ==
    << <<"SIZE_NORMAL", "fontSize", 13>>,
       <<"SIZE_SMALLER", "fontSize", 10>>,
       <<"SIZE_LARGER", "fontSize", 24>>,
       <<"SIZE_HUGE", "fontSize", 32>> >>

\* OLD_INLINE_STYLES of part_000: the sizes, then COLORi and BACKGROUND_COLORi
\* for the i-th colour, counted from 0.
OLD_INLINE_STYLES ==
    OLD_INLINE_STYLES_SIZE
    \o [k \in 1..2 * Len(OLD_COLORS) |->
           LET i == (k - 1) \div 2
           IN  IF k % 2 = 1
               THEN <<"COLOR" \o ToString(i), "color", OLD_COLORS[i + 1]>>
               ELSE <<"BACKGROUND_COLOR" \o ToString(i), "backgroundColor",
                      OLD_COLORS[i + 1]>>]

\* The characters of a property name, for decamelize.
PropChars(prop) ==
    CASE prop = "color" -> <<"c", "o", "l", "o", "r">>
      [] prop = "fontSize" -> <<"f", "o", "n", "t", "S", "i", "z", "e">>
      [] prop = "backgroundColor" ->
           <<"b", "a", "c", "k", "g", "r", "o", "u", "n", "d", "C", "o", "l", "o", "r">>

UpperCase == <<"A", "B", "C", "D", "E", "F", "G", "H", "I", "J", "K", "L", "M",
               "N", "O", "P", "Q", "R", "S", "T", "U", "V", "W", "X", "Y", "Z">>
LowerCase == <<"a", "b", "c", "d", "e", "f", "g", "h", "i", "j", "k", "l", "m",
               "n", "o", "p", "q", "r", "s", "t", "u", "v", "w", "x", "y", "z">>
Digits == {"0", "1", "2", "3", "4", "5", "6", "7", "8", "9"}

IsUpper(c) == \E i \in 1..Len(UpperCase) : UpperCase[i] = c
IsLowerOrDigit(c) == (\E i \in 1..Len(LowerCase) : LowerCase[i] = c) \/ c \in Digits
toLowerCase(str) ==
    [i \in 1..Len(str) |->
        IF IsUpper(str[i])
        THEN LowerCase[CHOOSE k \in 1..Len(UpperCase) : UpperCase[k] = str[i]]
        ELSE str[i]]

\* str.replace(/([a-z\d])([A-Z])/g, '$1' + sep + '$2')
DecamelizeFirst(str, sep) ==
    Join([i \in 1..Len(str) |->
        IF i < Len(str) /\ IsLowerOrDigit(str[i]) /\ IsUpper(str[i + 1])
        THEN <<str[i], sep>> ELSE <<str[i]>>])

\* str.replace(/([A-Z]+)([A-Z][a-z\d]+)/g, '$1' + sep + '$2'): the separator goes
\* before the last capital of a run of capitals that a lower-case letter follows.
DecamelizeSecond(str, sep) ==
    Join([i \in 1..Len(str) |->
        IF i + 2 <= Len(str) /\ IsUpper(str[i]) /\ IsUpper(str[i + 1])
           /\ IsLowerOrDigit(str[i + 2])
        THEN <<str[i], sep>> ELSE <<str[i]>>])

decamelize(str, sep) ==
    toLowerCase(DecamelizeSecond(DecamelizeFirst(str, sep), sep))

getTags(blockType) ==
    CASE blockType = HEADER_ONE -> <<"h1">>
      [] blockType = HEADER_TWO -> <<"h2">>
      [] blockType = HEADER_THREE -> <<"h3">>
      [] blockType = HEADER_FOUR -> <<"h4">>
      [] blockType = HEADER_FIVE -> <<"h5">>
      [] blockType = HEADER_SIX -> <<"h6">>
      [] blockType \in {UNORDERED_LIST_ITEM, ORDERED_LIST_ITEM, CHECKABLE_LIST_ITEM} ->
           <<"li">>
      [] blockType = BLOCKQUOTE -> <<"blockquote">>
      [] blockType = CODE_BLOCK -> <<"pre", "code">>
      [] blockType = ATOMIC -> <<"figure">>
      [] OTHER -> <<"div">>

getWrapperTag(blockType) ==
    CASE blockType \in {UNORDERED_LIST_ITEM, CHECKABLE_LIST_ITEM} -> "ul"
      [] blockType = ORDERED_LIST_ITEM -> "ol"
      [] OTHER -> Null

canHaveDepth(blockType) ==
    blockType \in {UNORDERED_LIST_ITEM, ORDERED_LIST_ITEM, CHECKABLE_LIST_ITEM}

-----------------------------------------------------------------------------
(* Entity attributes *)

\* An object of string properties is the sequence of its <<key, value>>
\* pairs in insertion order (the order of Object.keys).
HasKey(obj, key) == \E i \in 1..Len(obj) : obj[i][1] = key
Get(obj, key) ==
    IF HasKey(obj, key)
    THEN obj[CHOOSE i \in 1..Len(obj) : obj[i][1] = key][2]
    ELSE JsUndefined
\* obj[key] = value: an existing property keeps its place.
Put(obj, key, value) ==
    IF HasKey(obj, key)
    THEN [i \in 1..Len(obj) |-> IF obj[i][1] = key THEN <<key, value>> ELSE obj[i]]
    ELSE Append(obj, <<key, value>>)

RECURSIVE DataToAttrLoop(_, _, _)
DataToAttrLoop(attrMap, data, attrs) ==
    IF data = <<>> THEN attrs
    ELSE LET dataKey == Head(data)[1]
             dataValue == Head(data)[2]
         IN  DataToAttrLoop(attrMap, Tail(data),
                 IF HasKey(attrMap, dataKey)
                 THEN Put(attrs, Get(attrMap, dataKey), dataValue)
                 ELSE attrs)

dataToAttrUnfiltered(entityType, entity) ==
    [i \in 1..Len(entity.data) |-> entity.data[i]]

dataToAttr(entityType, entity) ==
    DataToAttrLoop(ENTITY_ATTR_MAP(entityType), entity.data, <<>>)

stringifyAttrsKeepNull(attrs) ==
    Join([i \in 1..Len(attrs) |->
        <<" ", attrs[i][1], "=\"">> \o encodeAttr(attrs[i][2]) \o <<"\"">>])

stringifyAttrs(attrs) ==
    Join([i \in 1..Len(attrs) |->
        IF attrs[i][2] \notin {JsNull, JsUndefined}
        THEN <<" ", attrs[i][1], "=\"">> \o encodeAttr(attrs[i][2]) \o <<"\"">>
        ELSE <<>>])

\* `${value}` in a template string.
Interpolate(value) ==
    IF value = JsNull THEN <<"null">>
    ELSE IF value = JsUndefined THEN <<"undefined">>
    ELSE value

-----------------------------------------------------------------------------
(* Inline content *)

\* A style is an ordered set of labels: the sequence of its labels in the
\* order they were added, without repetition.
Has(style, label) == \E i \in 1..Len(style) : style[i] = label

RECURSIVE RunsFrom(_, _, _)
\* The maximal runs <<first, last>> of equal neighbours in metas[start..],
\* scanning from index i as the loops of getEntityRanges / getStyleRanges do.
RunsFrom(metas, start, i) ==
    IF i > Len(metas) THEN << <<start, Len(metas)>> >>
    ELSE IF metas[i] # metas[i - 1]
         THEN << <<start, i - 1>> >> \o RunsFrom(metas, i, i + 1)
         ELSE RunsFrom(metas, start, i + 1)

Runs(metas) == IF metas = <<>> THEN << <<1, 0>> >> ELSE RunsFrom(metas, 1, 2)

\* getStyleRanges of draft-js-utils: <<text, style>> pieces of equal style.
getStyleRanges(text, charMetaList) ==
    LET styles == [i \in 1..Len(text) |-> charMetaList[i].style]
        runs == Runs(styles)
    IN  [r \in 1..Len(runs) |->
            <<SubSeq(text, runs[r][1], runs[r][2]),
              IF text = <<>> THEN <<>> ELSE styles[runs[r][1]]>>]

\* getEntityRanges of draft-js-utils: <<entityKey, stylePieces>> pieces of
\* equal entity key.
getEntityRanges(text, charMetaList) ==
    LET entities == [i \in 1..Len(text) |-> charMetaList[i].entity]
        runs == Runs(entities)
    IN  [r \in 1..Len(runs) |->
            <<IF text = <<>> THEN Null ELSE entities[runs[r][1]],
              getStyleRanges(SubSeq(text, runs[r][1], runs[r][2]),
                             SubSeq(charMetaList, runs[r][1], runs[r][2]))>>]

\* Object.keys(COLOR_STYLE_MAP).filter(label => !!style.get(label))
includedLabels(style) ==
    SelectSeq(COLOR_STYLE_MAP, LAMBDA e : Has(style, e[1]))

RECURSIVE AssignAll(_, _)
\* includedLabels.reduce((result, label) => Object.assign(result, MAP[label]), styles)
AssignAll(styles, labels) ==
    IF labels = <<>> THEN styles
    ELSE AssignAll(Put(styles, Head(labels)[2], Head(labels)[3]), Tail(labels))

stringifyStyles(styles) ==
    JoinWith([i \in 1..Len(styles) |->
                 decamelize(PropChars(styles[i][1]), "-") \o <<":", " ", styles[i][2], ";">>],
             <<" ">>)

Wrap(open, content, close) == <<open>> \o content \o <<close>>

\* The span of the colour labels of stateToHTML.js, innermost around the text.
StyleSpan(style, content) ==
    IF includedLabels(style) # <<>>
    THEN <<"<span style=\"">> \o stringifyStyles(AssignAll(<<>>, includedLabels(style)))
         \o <<"\">">> \o content \o <<"</span>">>
    ELSE content

\* style.toArray().filter(style => Object.keys(OLD_INLINE_STYLES).indexOf(style) !== -1)
oldStyles(style) ==
    SelectSeq(style, LAMBDA label :
        \E i \in 1..Len(OLD_INLINE_STYLES) : OLD_INLINE_STYLES[i][1] = label)

RECURSIVE OldStylesReduce(_, _)
\* oldStyles.reduce: every property of every old style, in the order of the
\* style set, is written into the result.
OldStylesReduce(styles, labels) ==
    IF labels = <<>> THEN styles
    ELSE LET e == OLD_INLINE_STYLES[CHOOSE i \in 1..Len(OLD_INLINE_STYLES) :
                                        OLD_INLINE_STYLES[i][1] = Head(labels)]
         IN  OldStylesReduce(Put(styles, e[2], e[3]), Tail(labels))

\* stringifyStyles of part_000: a font size is printed with the unit px.
stringifyOldStyles(styles) ==
    JoinWith([i \in 1..Len(styles) |->
                 LET prop == styles[i][1]
                     val == IF prop = "fontSize" THEN ToString(styles[i][2]) \o "px"
                            ELSE styles[i][2]
                 IN  decamelize(PropChars(prop), "-") \o <<":", " ", val, ";">>],
             <<" ">>)

\* The span of the old inline styles of part_000, innermost around the text.
OldStyleSpan(style, content) ==
    IF oldStyles(style) # <<>>
    THEN <<"<span style=\"">> \o stringifyOldStyles(OldStylesReduce(<<>>, oldStyles(style)))
         \o <<"\">">> \o content \o <<"</span>">>
    ELSE content

\* The span of the module that runs.
SpanOf(style, content) ==
    IF build = PART_000 THEN OldStyleSpan(style, content) ELSE StyleSpan(style, content)

CheckboxPrefixWhenPresent(block, content, checkedMap) ==
    IF block.type = CHECKABLE_LIST_ITEM
    THEN LET isChecked == block.key \in DOMAIN checkedMap
         IN  <<"<input type=\"checkbox\" ">>
             \o (IF isChecked THEN <<"checked ">> ELSE <<>>) \o <<"/>">> \o content
    ELSE content

CheckboxPrefix(block, content, checkedMap) ==
    IF block.type = CHECKABLE_LIST_ITEM
    THEN LET isChecked == block.key \in DOMAIN checkedMap /\ checkedMap[block.key]
         IN  <<"<input type=\"checkbox\" ">>
             \o (IF isChecked THEN <<"checked ">> ELSE <<>>) \o <<"/>">> \o content
    ELSE content

renderStylePieceItalicBeforeUnderline(block, text, style, checkedMap) ==
    LET c0 == SpanOf(style, encodeContent(text))
        c1 == IF Has(style, BOLD) THEN Wrap("<strong>", c0, "</strong>") ELSE c0
        c2 == IF Has(style, ITALIC) THEN Wrap("<em>", c1, "</em>") ELSE c1
        c3 == IF Has(style, UNDERLINE) THEN Wrap("<ins>", c2, "</ins>") ELSE c2
        c4 == IF Has(style, STRIKETHROUGH) THEN Wrap("<del>", c3, "</del>") ELSE c3
        c5 == IF Has(style, CODE) /\ block.type # CODE_BLOCK
              THEN Wrap("<code>", c4, "</code>") ELSE c4
    IN  CheckboxPrefix(block, c5, checkedMap)

\* The callback of stylePieces.map in renderBlockContent.
renderStylePiece(block, text, style, checkedMap) ==
    LET c0 == SpanOf(style, encodeContent(text))
        c1 == IF Has(style, BOLD) THEN Wrap("<strong>", c0, "</strong>") ELSE c0
        c2 == IF Has(style, UNDERLINE) THEN Wrap("<ins>", c1, "</ins>") ELSE c1
        c3 == IF Has(style, ITALIC) THEN Wrap("<em>", c2, "</em>") ELSE c2
        c4 == IF Has(style, STRIKETHROUGH) THEN Wrap("<del>", c3, "</del>") ELSE c3
        c5 == IF Has(style, CODE) /\ block.type # CODE_BLOCK
              THEN Wrap("<code>", c4, "</code>") ELSE c4
    IN  CheckboxPrefix(block, c5, checkedMap)

ImageTag(attrs) ==
    <<"<a", " ", "href", "=\"">> \o Interpolate(Get(attrs, "href")) \o <<"\"", ">">>
    \o <<"<img", " ", "src", "=\"">> \o Interpolate(Get(attrs, "src")) \o <<"\"">>
    \o <<" ", "alt", "=\"">> \o Interpolate(Get(attrs, "alt")) \o <<"\"", " />", "</a>">>

renderEntityPieceImageKeepsContent(block, entityKey, stylePieces, checkedMap, registry) ==
    LET content == Join([i \in 1..Len(stylePieces) |->
                        renderStylePiece(block, stylePieces[i][1], stylePieces[i][2],
                                         checkedMap)])
        entityType == IF entityKey = Null THEN Null ELSE registry[entityKey].type
    IN  IF entityType = LINK
        THEN <<"<a">> \o stringifyAttrs(dataToAttr(entityType, registry[entityKey]))
             \o <<">">> \o content \o <<"</a>">>
        ELSE IF entityType = IMAGE
        THEN ImageTag(dataToAttr(entityType, registry[entityKey])) \o content
        ELSE content

\* The callback of entityPieces.map in renderBlockContent.
renderEntityPiece(block, entityKey, stylePieces, checkedMap, registry) ==
    LET content == Join([i \in 1..Len(stylePieces) |->
                        renderStylePiece(block, stylePieces[i][1], stylePieces[i][2],
                                         checkedMap)])
        entityType == IF entityKey = Null THEN Null ELSE registry[entityKey].type
    IN  IF entityType = LINK
        THEN <<"<a">> \o stringifyAttrs(dataToAttr(entityType, registry[entityKey]))
             \o <<">">> \o content \o <<"</a>">>
        ELSE IF entityType = IMAGE
        THEN ImageTag(dataToAttr(entityType, registry[entityKey]))
        ELSE content

renderBlockContentNoBreak(block, checkedMap, registry) ==
    LET text == preserveWhitespace(block.text)
        entityPieces == getEntityRanges(text, block.characterList)
    IN  Join([i \in 1..Len(entityPieces) |->
            renderEntityPiece(block, entityPieces[i][1], entityPieces[i][2],
                              checkedMap, registry)])

renderBlockContent(block, checkedMap, registry) ==
    IF block.text = <<>> THEN BREAK
    ELSE LET text == preserveWhitespace(block.text)
             entityPieces == getEntityRanges(text, block.characterList)
         IN  Join([i \in 1..Len(entityPieces) |->
                 renderEntityPiece(block, entityPieces[i][1], entityPieces[i][2],
                                   checkedMap, registry)])

-----------------------------------------------------------------------------
(* MarkupGenerator *)

\* The fields a method changes, as a record g = [output, wrapperTag, indentLevel].
Gen == [output |-> output, wrapperTag |-> wrapperTag, indentLevel |-> indentLevel]

Push(g, frag) == [g EXCEPT !.output = Append(@, frag)]

\* this.output.push(INDENT.repeat(this.indentLevel))
indent(g) == Push(g, [i \in 1..g.indentLevel |-> INDENT])

openWrapperTag(g, tag) ==
    LET g1 == indent([g EXCEPT !.wrapperTag = tag])
        g2 == Push(g1, <<"<" \o tag \o ">", NL>>)
    IN  [g2 EXCEPT !.indentLevel = @ + 1]

closeWrapperTagKeepsTag(g) ==
    IF g.wrapperTag # Null
    THEN LET g1 == indent([g EXCEPT !.indentLevel = @ - 1])
         IN  Push(g1, <<"</" \o g.wrapperTag \o ">", NL>>)
    ELSE g

closeWrapperTag(g) ==
    IF g.wrapperTag # Null
    THEN LET g1 == indent([g EXCEPT !.indentLevel = @ - 1])
             g2 == Push(g1, <<"</" \o g.wrapperTag \o ">", NL>>)
         IN  [g2 EXCEPT !.wrapperTag = Null]
    ELSE g

RECURSIVE PushAll(_, _)
PushAll(g, frags) ==
    IF frags = <<>> THEN g ELSE PushAll(Push(g, Head(frags)), Tail(frags))

writeStartTag(g, blockType) ==
    LET tags == getTags(blockType)
    IN  PushAll(g, [i \in 1..Len(tags) |-> <<"<" \o tags[i] \o ">">>])

writeEndTag(g, blockType) ==
    LET tags == getTags(blockType)
    IN  IF Len(tags) = 1
        THEN Push(g, <<"</" \o tags[1] \o ">", NL>>)
        ELSE Push(g, [i \in 1..Len(tags) |-> "</" \o tags[Len(tags) + 1 - i] \o ">"]
                     \o <<NL>>)

\* The wrapper switch at the head of processBlock.
switchWrapperAlways(g, newWrapperTag) ==
    LET g1 == IF g.wrapperTag # Null THEN closeWrapperTag(g) ELSE g
    IN  IF newWrapperTag # Null THEN openWrapperTag(g1, newWrapperTag) ELSE g1

switchWrapper(g, newWrapperTag) ==
    IF g.wrapperTag # newWrapperTag
    THEN LET g1 == IF g.wrapperTag # Null THEN closeWrapperTag(g) ELSE g
         IN  IF newWrapperTag # Null THEN openWrapperTag(g1, newWrapperTag) ELSE g1
    ELSE g

\* this.blocks[i] for a 0-based index i; Null when there is none.
HasBlock(i) == i >= 0 /\ i < Len(blocks)
BlockAt(i) == blocks[i + 1]

\* processBlock up to the look-ahead: wrapper, indent, start tag, content.
ProcessBlockHead(g, block) ==
    LET g1 == switchWrapper(g, getWrapperTag(block.type))
        g2 == writeStartTag(indent(g1), block.type)
    IN  Push(g2, renderBlockContent(block, checkedStateMap, entityMap))

WillNestSameDepth(block, i) ==
    /\ canHaveDepth(block.type)
    /\ HasBlock(i + 1)
    /\ BlockAt(i + 1).depth = block.depth

\* The test of the look-ahead: will the next block nest under this one?
WillNest(block, i) ==
    /\ canHaveDepth(block.type)
    /\ HasBlock(i + 1)
    /\ BlockAt(i + 1).depth = block.depth + 1

LoopConditionStopsEarly ==
    IF stack = <<>>
    THEN currentBlock + 1 < totalBlocks
    ELSE HasBlock(currentBlock) /\ BlockAt(currentBlock).depth = Head(stack).depth

\* The condition of the loop the call is in: the while of generate() when no
\* processBlock is suspended, the while of processBlocksAtDepth otherwise.
LoopCondition ==
    IF stack = <<>>
    THEN currentBlock < totalBlocks
    ELSE HasBlock(currentBlock) /\ BlockAt(currentBlock).depth = Head(stack).depth

\* String.prototype.trim on the joined output.
IsSpace(c) == c \in {SP, NL, INDENT, NBSP}
RECURSIVE TrimLeft(_)
TrimLeft(str) ==
    IF str # <<>> /\ IsSpace(Head(str)) THEN TrimLeft(Tail(str)) ELSE str
RECURSIVE TrimRight(_)
TrimRight(str) ==
    IF str # <<>> /\ IsSpace(str[Len(str)])
    THEN TrimRight(SubSeq(str, 1, Len(str) - 1)) ELSE str
trim(str) == TrimRight(TrimLeft(str))

Commit(g) ==
    /\ output' = g.output
    /\ wrapperTag' = g.wrapperTag
    /\ indentLevel' = g.indentLevel

\* generate(), up to its loop.
generateBegin ==
    /\ pc = "start"
    /\ output' = <<>>
    /\ totalBlocks' = Len(blocks)
    /\ currentBlock' = 0
    /\ indentLevel' = 0
    /\ wrapperTag' = Null
    /\ pc' = "loop"
    /\ UNCHANGED <<build, blocks, checkedStateMap, entityMap, stack, result>>

\* One call of processBlock from the loop the call is in.  When the block
\* nests the next ones, the call is suspended in processBlocksAtDepth with
\* its block type, its stashed wrapper tag and the depth of the nested run.
processBlock ==
    /\ pc = "loop"
    /\ LoopCondition
    /\ LET block == BlockAt(currentBlock)
           g == ProcessBlockHead(Gen, block)
       IN  IF WillNest(block, currentBlock)
           THEN /\ Commit([Push(g, <<NL>>) EXCEPT !.wrapperTag = Null,
                                                  !.indentLevel = @ + 1])
                /\ stack' = <<[blockType |-> block.type,
                               thisWrapperTag |-> g.wrapperTag,
                               depth |-> BlockAt(currentBlock + 1).depth]>> \o stack
           ELSE /\ Commit(writeEndTag(g, block.type))
                /\ stack' = stack
    /\ currentBlock' = currentBlock + 1
    /\ UNCHANGED <<build, blocks, checkedStateMap, entityMap, totalBlocks, result, pc>>

\* The loop of processBlocksAtDepth ends: the nested wrapper is closed and
\* the suspended processBlock resumes (wrapper restored, end tag written).
processBlocksAtDepthReturn ==
    /\ pc = "loop"
    /\ stack # <<>>
    /\ ~LoopCondition
    /\ LET frame == Head(stack)
           g1 == closeWrapperTag(Gen)
           g2 == indent([g1 EXCEPT !.wrapperTag = frame.thisWrapperTag,
                                   !.indentLevel = @ - 1])
       IN  Commit(writeEndTag(g2, frame.blockType))
    /\ stack' = Tail(stack)
    /\ UNCHANGED <<build, blocks, checkedStateMap, entityMap, currentBlock, totalBlocks,
                   result, pc>>

\* The loop of generate() ends.
generateEnd ==
    /\ pc = "loop"
    /\ stack = <<>>
    /\ ~LoopCondition
    /\ LET g == closeWrapperTag(Gen)
       IN  /\ Commit(g)
           /\ result' = trim(Join(g.output))
    /\ pc' = "done"
    /\ UNCHANGED <<build, blocks, checkedStateMap, entityMap, currentBlock, totalBlocks, stack>>

-----------------------------------------------------------------------------
(* Documents *)

MaxBlocks == 3
MaxDepth == 2

BlockTypes == {UNSTYLED, UNORDERED_LIST_ITEM, ORDERED_LIST_ITEM, CHECKABLE_LIST_ITEM,
               CODE_BLOCK}
BlockKeys == <<"k1", "k2", "k3", "k4", "k5">>

NoStyle == <<>>
PlainChars(text) == [i \in 1..Len(text) |-> [style |-> NoStyle, entity |-> Null]]

\* A block without styles or entities.
PlainBlock(key, type, depth, text) ==
    [key |-> key, type |-> type, depth |-> depth, text |-> text,
     characterList |-> PlainChars(text)]

Outlines ==
    UNION {[1..n -> BlockTypes \X (0..MaxDepth)] : n \in 0..MaxBlocks}

\* The document of an outline: its blocks, each with the one-letter text "a".
Document(outline) ==
    [i \in 1..Len(outline) |->
        PlainBlock(BlockKeys[i], outline[i][1], outline[i][2], <<"a">>)]

NotStarted ==
    /\ output = <<>>
    /\ currentBlock = 0
    /\ totalBlocks = 0
    /\ indentLevel = 0
    /\ wrapperTag = Null
    /\ stack = <<>>
    /\ result = <<>>
    /\ pc = "start"

Init ==
    /\ build = STATE_TO_HTML
    /\ \E outline \in Outlines : blocks = Document(outline)
    /\ checkedStateMap = <<>>
    /\ entityMap = <<>>
    /\ NotStarted

Next ==
    \/ generateBegin
    \/ processBlock
    \/ processBlocksAtDepthReturn
    \/ generateEnd

Spec == Init /\ [][Next]_vars

-----------------------------------------------------------------------------
(* Reading the markup back *)

WrapperNames == {"ul", "ol"}
BlockNames == {"h1", "h2", "h3", "h4", "h5", "h6", "li", "blockquote", "pre", "code",
               "figure", "div"}
ElementNames == WrapperNames \cup BlockNames

OpenTag == [n \in ElementNames |-> "<" \o n \o ">"]
CloseTag == [n \in ElementNames |-> "</" \o n \o ">"]

OpenTags == {OpenTag[n] : n \in ElementNames}
CloseTags == {CloseTag[n] : n \in ElementNames}
NameOfOpenTag == [tok \in OpenTags |-> CHOOSE n \in ElementNames : OpenTag[n] = tok]
NameOfCloseTag == [tok \in CloseTags |-> CHOOSE n \in ElementNames : CloseTag[n] = tok]

IsOpenTag(tok) == tok \in OpenTags
IsCloseTag(tok) == tok \in CloseTags
OpenName(tok) == NameOfOpenTag[tok]
CloseName(tok) == NameOfCloseTag[tok]

\* The structural tags of a string, in order.
StructuralTags(str) == SelectSeq(str, LAMBDA tok : IsOpenTag(tok) \/ IsCloseTag(tok))

Mismatch == <<"!">>

\* The elements open (innermost first) after the token tok is read with the
\* elements open already open; Mismatch when tok is an end tag that does not
\* close the innermost open element.
OpenAfter(open, tok) ==
    IF open = Mismatch THEN Mismatch
    ELSE IF IsOpenTag(tok) THEN <<OpenName(tok)>> \o open
    ELSE IF IsCloseTag(tok)
         THEN IF open # <<>> /\ Head(open) = CloseName(tok) THEN Tail(open) ELSE Mismatch
         ELSE open

RECURSIVE StacksFrom(_, _, _)
StacksFrom(str, p, open) ==
    IF p > Len(str) THEN <<open>>
    ELSE <<open>> \o StacksFrom(str, p + 1, OpenAfter(open, str[p]))

\* Stacks(str)[p] is the elements open just before position p of str, and
\* Stacks(str)[Len(str) + 1] the elements left open at its end.
Stacks(str) == StacksFrom(str, 1, <<>>)

OpenElements(str) == Stacks(str)[Len(str) + 1]

\* The first start tag of each block: any block-level start tag but the
\* <code> that follows <pre>.
IsBlockStart(str, p) ==
    /\ IsOpenTag(str[p])
    /\ OpenName(str[p]) \in BlockNames
    /\ ~(str[p] = OpenTag["code"] /\ p > 1 /\ str[p - 1] = OpenTag["pre"])

RECURSIVE PositionsFrom(_, _)
PositionsFrom(str, p) ==
    IF p > Len(str) THEN <<>>
    ELSE (IF IsBlockStart(str, p) THEN <<p>> ELSE <<>>) \o PositionsFrom(str, p + 1)

\* The positions of the block start tags of str, in order.
BlockStarts(str) == PositionsFrom(str, 1)

RECURSIVE MatchingEnd(_, _, _)
\* The position of the end tag of the element that starts at position p, given
\* the stacks of the string: the first position from q on after which the open
\* elements are again those before p.
MatchingEnd(stacks, p, q) ==
    IF q + 1 > Len(stacks) THEN 0
    ELSE IF stacks[q + 1] = stacks[p] THEN q
    ELSE MatchingEnd(stacks, p, q + 1)

\* The wrapper among the open elements, Null when the innermost open element
\* is not a wrapper.
WrapperOf(open) ==
    IF open # <<>> /\ Head(open) \in WrapperNames THEN Head(open) ELSE Null

\* Some wrapper is closed and at once opened again with the same name.
RECURSIVE Reopens(_)
Reopens(tags) ==
    /\ Len(tags) >= 2
    /\ \/ \E w \in WrapperNames : tags[1] = CloseTag[w] /\ tags[2] = OpenTag[w]
       \/ Reopens(Tail(tags))

-----------------------------------------------------------------------------
(* Traversal properties *)

\* C1: when generate() returns, no wrapper tag is open and the structural
\* tags of the returned markup are balanced and properly nested: every end
\* tag closes the innermost open element and nothing is left open.
C1_Balanced ==
    pc = "done" =>
        /\ wrapperTag = Null
        /\ stack = <<>>
        /\ OpenElements(result) = <<>>

\* A document with a depth jump and a decrease, rendered with wrappers.
C1_Witness ==
    /\ pc = "done"
    /\ Len(blocks) = 3
    /\ blocks[1].depth = 0 /\ blocks[2].depth = 2 /\ blocks[3].depth = 1
    /\ blocks[1].type = ORDERED_LIST_ITEM
    /\ blocks[2].type = UNORDERED_LIST_ITEM
    /\ blocks[3].type = CHECKABLE_LIST_ITEM
    /\ \E p \in 1..Len(result) : result[p] = CloseTag["ol"]

\* The blocks after block i that continue at the depth of block i + 1: the
\* last index j such that blocks i + 1 .. j all have that depth.
RunEnd(i) ==
    CHOOSE j \in (i + 1)..Len(blocks) :
        /\ \A k \in (i + 1)..j : blocks[k].depth = blocks[i + 1].depth
        /\ j < Len(blocks) => blocks[j + 1].depth # blocks[i + 1].depth

\* Block i is a list item and the next block is one level deeper.
HasNestedRun(i) ==
    /\ i < Len(blocks)
    /\ canHaveDepth(blocks[i].type)
    /\ blocks[i + 1].depth = blocks[i].depth + 1

\* No wrapper tag between positions p and q of str.
NoWrapperTagBetween(str, p, q) ==
    \A r \in (p + 1)..(q - 1) :
        \A w \in WrapperNames : str[r] # OpenTag[w] /\ str[r] # CloseTag[w]

ThreeUnorderedItems ==
    /\ Len(blocks) = 3
    /\ \A i \in 1..3 : blocks[i].type = UNORDERED_LIST_ITEM
    /\ blocks[1].depth = 0 /\ blocks[2].depth = 1 /\ blocks[3].depth = 0

\* C2: in the returned markup the run of blocks one level deeper than a
\* list item lies inside that item's <li> (the first block of the run starts
\* with its own wrapper, if any, directly inside the <li>, and every block of
\* the run starts before the </li>), and when the block that follows the
\* </li> is at the item's depth and needs the item's wrapper, no wrapper tag
\* stands between the </li> and that block's start tag.  Three unordered items
\* at depths 0, 1, 0 give exactly <ul><li><ul><li></li></ul></li><li></li></ul>.
C2_NestedRun ==
    pc = "done" =>
        LET starts == BlockStarts(result)
            stacks == Stacks(result)
        IN  /\ Len(starts) = Len(blocks)
            /\ \A i \in 1..Len(blocks) :
                  HasNestedRun(i) =>
                      LET end == MatchingEnd(stacks, starts[i], starts[i] + 1)
                          wrapper == getWrapperTag(blocks[i + 1].type)
                      IN  /\ result[end] = CloseTag["li"]
                          /\ stacks[starts[i + 1]] =
                                (IF wrapper = Null THEN <<>> ELSE <<wrapper>>)
                                \o <<"li">> \o stacks[starts[i]]
                          /\ \A j \in (i + 1)..RunEnd(i) : starts[j] < end
                          /\ \A k \in 1..Len(blocks) :
                                (/\ starts[k] > end
                                 /\ \A m \in 1..(k - 1) : starts[m] < end
                                 /\ blocks[k].depth = blocks[i].depth
                                 /\ getWrapperTag(blocks[k].type)
                                        = getWrapperTag(blocks[i].type))
                                => NoWrapperTagBetween(result, end, starts[k])
            /\ ThreeUnorderedItems =>
                  StructuralTags(result) =
                      <<"<ul>", "<li>", "<ul>", "<li>", "</li>", "</ul>", "</li>",
                        "<li>", "</li>", "</ul>">>

\* The three unordered items at depths 0, 1, 0 have been rendered.
C2_Witness ==
    /\ pc = "done"
    /\ ThreeUnorderedItems
    /\ Len(SelectSeq(result, LAMBDA tok : tok = OpenTag["ul"])) = 2

\* C3: in the markup written so far, the k-th block start tag is the tag of
\* block k and the wrapper open at that point is the one its type requires
\* (none open, or only an <li>, when it requires none); no wrapper is closed
\* and at once opened again with the same name, so neighbours that need the
\* same wrapper share one element; and a wrapper is closed before the next is
\* opened, since every end tag closes the innermost open element.
C3_WrapperAtStart ==
    LET str == Join(output)
        starts == BlockStarts(str)
        stacks == Stacks(str)
    IN  /\ Len(starts) <= Len(blocks)
        /\ pc # "start" => Len(starts) = currentBlock
        /\ stacks[Len(str) + 1] # Mismatch
        /\ \A k \in 1..Len(starts) :
              /\ str[starts[k]] = OpenTag[getTags(blocks[k].type)[1]]
              /\ WrapperOf(stacks[starts[k]]) = getWrapperTag(blocks[k].type)
        /\ ~Reopens(StructuralTags(str))

\* A wrapper switch from <ol> to <ul>, with two items sharing the <ul>.
C3_Witness ==
    /\ pc = "done"
    /\ Len(blocks) = 3
    /\ blocks[1].type = ORDERED_LIST_ITEM
    /\ blocks[2].type = UNORDERED_LIST_ITEM
    /\ blocks[3].type = CHECKABLE_LIST_ITEM
    /\ \A i \in 1..3 : blocks[i].depth = 0
    /\ StructuralTags(result) =
          <<"<ol>", "<li>", "</li>", "</ol>", "<ul>", "<li>", "</li>", "<li>", "</li>",
            "</ul>">>

-----------------------------------------------------------------------------
(* The text functions on their own *)

MaxWsLen == 8
MaxEscLen == 4

WsAlphabet == {SP, "a", "b"}
EscAlphabet == {"&", "<", ">", "l", "t", ";"}

TextsOver(alphabet, maxLen) == UNION {[1..n -> alphabet] : n \in 0..maxLen}

\* The text the functions are applied to: the text of the only block.
TheText == blocks[1].text

InitText ==
    /\ build = STATE_TO_HTML
    /\ \E t \in TextsOver(WsAlphabet, MaxWsLen) \cup TextsOver(EscAlphabet, MaxEscLen) :
          blocks = <<PlainBlock("k1", UNSTYLED, 0, t)>>
    /\ checkedStateMap = <<>>
    /\ entityMap = <<>>
    /\ output = <<>>
    /\ currentBlock = 0
    /\ totalBlocks = 0
    /\ indentLevel = 0
    /\ wrapperTag = Null
    /\ stack = <<>>
    /\ result = <<>>
    /\ pc = "text"

\* A call preserveWhitespace(text).
preserveWhitespaceCall ==
    /\ pc = "text"
    /\ result' = preserveWhitespace(TheText)
    /\ pc' = "preserved"
    /\ UNCHANGED <<build, blocks, checkedStateMap, entityMap, output, currentBlock,
                   totalBlocks, indentLevel, wrapperTag, stack>>

\* A call encodeContent(text).
encodeContentCall ==
    /\ pc = "text"
    /\ result' = encodeContent(TheText)
    /\ pc' = "encoded"
    /\ UNCHANGED <<build, blocks, checkedStateMap, entityMap, output, currentBlock,
                   totalBlocks, indentLevel, wrapperTag, stack>>

NextText ==
    \/ preserveWhitespaceCall
    \/ encodeContentCall

SpecText == InitText /\ [][NextText]_vars

IsLeading(text, i) == i = 1
IsTrailing(text, i) == i = Len(text)
FollowsSpace(text, i) == i > 1 /\ text[i - 1] = SP
PrecedesSpace(text, i) == i < Len(text) /\ text[i + 1] = SP

SixSpaces == <<SP, SP, "a", SP, SP, "b", SP, SP>>

\* C6 as stated: a space becomes a non-breaking space exactly when it is
\* leading, trailing or next to another space on either side, and all six
\* spaces of "  a  b  " become non-breaking spaces.
C6_AsStated ==
    pc = "preserved" =>
        /\ Len(result) = Len(TheText)
        /\ \A i \in 1..Len(TheText) :
              IF TheText[i] = SP
                 /\ (IsLeading(TheText, i) \/ IsTrailing(TheText, i)
                     \/ FollowsSpace(TheText, i) \/ PrecedesSpace(TheText, i))
              THEN result[i] = NBSP
              ELSE result[i] = TheText[i]
        /\ TheText = SixSpaces => \A i \in {1, 2, 4, 5, 7, 8} : result[i] = NBSP

\* C6, amended: a space becomes a non-breaking space exactly when it is
\* leading, trailing or immediately preceded by another space; every other
\* character, a space that is only followed by a space included, is kept.  So
\* no plain space is left at either end or right after a space, and of the
\* six spaces of "  a  b  " the first of each inner pair stays plain.
C6_PrecededOnly ==
    pc = "preserved" =>
        /\ Len(result) = Len(TheText)
        /\ \A i \in 1..Len(TheText) :
              IF TheText[i] = SP
                 /\ (IsLeading(TheText, i) \/ IsTrailing(TheText, i)
                     \/ FollowsSpace(TheText, i))
              THEN result[i] = NBSP
              ELSE result[i] = TheText[i]
        /\ \A i \in 1..Len(result) :
              result[i] = SP =>
                  /\ i # 1 /\ i # Len(result)
                  /\ result[i - 1] # SP /\ result[i + 1] # SP
        /\ TheText = SixSpaces =>
              result = <<NBSP, NBSP, "a", SP, NBSP, "b", SP, NBSP>>

\* preserveWhitespace has been applied to "  a  b  ".
C6_Witness ==
    /\ pc = "preserved"
    /\ TheText = SixSpaces
    /\ result[4] = SP

\* The entity of one character, the character itself when it needs none.
EscapeOf(c) ==
    CASE c = "&" -> AMP
      [] c = "<" -> LT
      [] c = ">" -> GT
      [] OTHER -> <<c>>

StartsWith(str, prefix) ==
    Len(str) >= Len(prefix) /\ SubSeq(str, 1, Len(prefix)) = prefix

RECURSIVE Decode(_)
\* One pass of entity decoding, left to right.
Decode(str) ==
    IF str = <<>> THEN <<>>
    ELSE IF StartsWith(str, AMP)
         THEN <<"&">> \o Decode(SubSeq(str, Len(AMP) + 1, Len(str)))
    ELSE IF StartsWith(str, LT)
         THEN <<"<">> \o Decode(SubSeq(str, Len(LT) + 1, Len(str)))
    ELSE IF StartsWith(str, GT)
         THEN <<">">> \o Decode(SubSeq(str, Len(GT) + 1, Len(str)))
    ELSE <<Head(str)>> \o Decode(Tail(str))

\* C7: encodeContent replaces every "&", "<", ">" of the text by its entity,
\* once (the result is the text with each character replaced by its own
\* entity, so the "&" of an entity is never escaped again), and decoding the
\* entities of the result gives the text back.
C7_EscapedOnce ==
    pc = "encoded" =>
        /\ result = Join([i \in 1..Len(TheText) |-> EscapeOf(TheText[i])])
        /\ Decode(result) = TheText

\* A text with all three characters, and one that spells an entity, encoded.
C7_Witness ==
    /\ pc = "encoded"
    /\ TheText = <<"&", "l", "t", ";">>
    /\ result = <<"&", "a", "m", "p", ";", "l", "t", ";">>

-----------------------------------------------------------------------------
(* The inline content of one block *)

MaxRunLen == 2
MaxFields == 3

\* The labels tried with each module: the five styles and two of its span labels.
StyleLabels(b) ==
    {BOLD, UNDERLINE, ITALIC, STRIKETHROUGH, CODE}
    \cup (IF b = PART_000 THEN {"SIZE_HUGE", "BACKGROUND_COLOR1"}
          ELSE {"TEXT_RED", "BACKGROUND_BLUE"})

RECURSIVE Arrangements(_)
\* The ordered sets over the labels S: every order of every subset.
Arrangements(S) ==
    {<<>>} \cup UNION {{<<x>> \o a : a \in Arrangements(S \ {x})} : x \in S}

\* One block of one styled run.
StyledBlock(type, style) ==
    [key |-> "k1", type |-> type, depth |-> 0, text |-> <<"a">>,
     characterList |-> <<[style |-> style, entity |-> Null]>>]

RunAlphabet == {"a", "<"}
RunStyles == {<<>>, <<BOLD>>, <<CODE, ITALIC>>}
RunEntities == {Null, "e1", "e2"}

\* One block of some characters, each with its style and entity.
RunBlock(type, text, styles, entities) ==
    [key |-> "k1", type |-> type, depth |-> 0, text |-> text,
     characterList |-> [i \in 1..Len(text) |-> [style |-> styles[i], entity |-> entities[i]]]]

\* The registry of the run blocks: a link and an image.
RunRegistry ==
    ("e1" :> [type |-> LINK,
              data |-> << <<"url", <<"u">> >>, <<"title", <<"t">> >> >>])
    @@ ("e2" :> [type |-> IMAGE,
                 data |-> << <<"src", <<"s">> >>, <<"alt", <<"l">> >>,
                             <<"data-original-url", <<"h">> >> >>])

\* The checked-state maps tried for a block: only a checkable item reads it.
CheckedMaps(type) ==
    IF type = CHECKABLE_LIST_ITEM
    THEN {<<>>, "k1" :> TRUE, "k1" :> FALSE}
    ELSE {<<>>}

EntityTypes == {LINK, IMAGE, "TOKEN"}
Absent == <<"%absent">>
DataValues == {<<>>, <<"x">>, <<"&">>, <<"<", ">">>, <<"\"">>, JsNull, JsUndefined}

\* The data keys tried for an entity type: the keys of its table and one more.
KeysFor(entityType) ==
    CASE entityType = LINK -> <<"url", "rel", "target", "title", "class">>
      [] entityType = IMAGE -> <<"src", "alt", "data-original-url", "class">>
      [] OTHER -> <<"url", "src">>

Reverse(seq) == [i \in 1..Len(seq) |-> seq[Len(seq) + 1 - i]]

\* The data object whose fields are the keys with a value, in their order.
DataOf(keys, values) ==
    Join([i \in 1..Len(keys) |->
        IF values[i] = Absent THEN <<>> ELSE << <<keys[i], values[i]>> >>])

\* One block of one character that carries the entity "e1".
EntityBlock ==
    [key |-> "k1", type |-> UNSTYLED, depth |-> 0, text |-> <<"a">>,
     characterList |-> <<[style |-> <<BOLD>>, entity |-> "e1"]>>]

InitContent ==
    /\ build \in Builds
    /\ \/ /\ \E ty \in BlockTypes, st \in Arrangements(StyleLabels(build)) :
                blocks = <<StyledBlock(ty, st)>>
          /\ checkedStateMap = <<>>
          /\ entityMap = <<>>
       \/ \E n \in 0..MaxRunLen, ty \in BlockTypes :
              \E t \in [1..n -> RunAlphabet], st \in [1..n -> RunStyles],
                 en \in [1..n -> RunEntities] :
                  /\ blocks = <<RunBlock(ty, t, st, en)>>
                  /\ checkedStateMap \in CheckedMaps(ty)
                  /\ entityMap = RunRegistry
       \/ /\ blocks = <<EntityBlock>>
          /\ checkedStateMap = <<>>
          /\ \E ty \in EntityTypes, backwards \in BOOLEAN :
                LET keys == IF backwards THEN Reverse(KeysFor(ty)) ELSE KeysFor(ty)
                IN  \E values \in [1..Len(keys) -> DataValues \cup {Absent}] :
                        /\ Cardinality({i \in 1..Len(keys) : values[i] # Absent})
                               <= MaxFields
                        /\ entityMap = ("e1" :> [type |-> ty, data |-> DataOf(keys, values)])
    /\ output = <<>>
    /\ currentBlock = 0
    /\ totalBlocks = 0
    /\ indentLevel = 0
    /\ wrapperTag = Null
    /\ stack = <<>>
    /\ result = <<>>
    /\ pc = "content"

\* A call this.renderBlockContent(block).
renderBlockContentCall ==
    /\ pc = "content"
    /\ result' = renderBlockContent(blocks[1], checkedStateMap, entityMap)
    /\ pc' = "rendered"
    /\ UNCHANGED <<build, blocks, checkedStateMap, entityMap, output, currentBlock,
                   totalBlocks, indentLevel, wrapperTag, stack>>

NextContent == renderBlockContentCall

SpecContent == InitContent /\ [][NextContent]_vars

-----------------------------------------------------------------------------
(* Inline content properties *)

TheBlock == blocks[1]

DecorationOpen ==
    ("<span style=\"" :> "span") @@ ("<strong>" :> "strong") @@ ("<ins>" :> "ins")
    @@ ("<em>" :> "em") @@ ("<del>" :> "del") @@ ("<code>" :> "code")
DecorationClose ==
    ("</span>" :> "span") @@ ("</strong>" :> "strong") @@ ("</ins>" :> "ins")
    @@ ("</em>" :> "em") @@ ("</del>" :> "del") @@ ("</code>" :> "code")

\* The decorations whose start tags (end tags) occur in str, in order.
DecorationOpens(str) ==
    LET toks == SelectSeq(str, LAMBDA tok : tok \in DOMAIN DecorationOpen)
    IN  [i \in 1..Len(toks) |-> DecorationOpen[toks[i]]]
DecorationCloses(str) ==
    LET toks == SelectSeq(str, LAMBDA tok : tok \in DOMAIN DecorationClose)
    IN  [i \in 1..Len(toks) |-> DecorationClose[toks[i]]]

\* The order of the claim, outermost first, and the order of the code.
SpanOutermost == <<"span", "strong", "ins", "em", "del", "code">>
CodeOutermost == <<"code", "del", "em", "ins", "strong", "span">>

PlaceIn(order, name) == CHOOSE i \in 1..Len(order) : order[i] = name

RECURSIVE NestsInOrder(_, _, _)
\* The decoration tags of str are properly nested and every decoration lies
\* directly or indirectly only inside decorations that come before it in order.
NestsInOrder(str, order, open) ==
    IF str = <<>> THEN open = <<>>
    ELSE LET tok == Head(str)
         IN  IF tok \in DOMAIN DecorationOpen
             THEN /\ open # <<>> =>
                        PlaceIn(order, Head(open)) < PlaceIn(order, DecorationOpen[tok])
                  /\ NestsInOrder(Tail(str), order, <<DecorationOpen[tok]>> \o open)
             ELSE IF tok \in DOMAIN DecorationClose
             THEN /\ open # <<>>
                  /\ Head(open) = DecorationClose[tok]
                  /\ NestsInOrder(Tail(str), order, Tail(open))
             ELSE NestsInOrder(Tail(str), order, open)

\* The block is one style run without an entity.
OneStyleRun ==
    /\ TheBlock.text # <<>>
    /\ \A i \in 1..Len(TheBlock.text) :
          TheBlock.characterList[i] = TheBlock.characterList[1]
    /\ TheBlock.characterList[1].entity = Null

TheStyle == TheBlock.characterList[1].style

\* The decoration is active for the run of the block.
IsActive(name) ==
    CASE name = "span" ->
           \E i \in 1..Len(TheStyle) :
               LET table == IF build = PART_000 THEN OLD_INLINE_STYLES ELSE COLOR_STYLE_MAP
               IN  \E k \in 1..Len(table) : table[k][1] = TheStyle[i]
      [] name = "strong" -> Has(TheStyle, BOLD)
      [] name = "ins" -> Has(TheStyle, UNDERLINE)
      [] name = "em" -> Has(TheStyle, ITALIC)
      [] name = "del" -> Has(TheStyle, STRIKETHROUGH)
      [] name = "code" -> Has(TheStyle, CODE) /\ TheBlock.type # CODE_BLOCK

\* C4 as stated: the decorations of a style run nest, outermost first, as
\* span, strong, ins, em, del, code.
C4_AsStated ==
    (pc = "rendered" /\ OneStyleRun) =>
        DecorationOpens(result) = SelectSeq(SpanOutermost, IsActive)

\* C4, amended: the decorations nest in the opposite order, outermost first
\* code (none in a code block), del, em, ins, strong and innermost the span
\* of the legacy styles: in every rendered content the decoration tags are
\* properly nested in that order, and a style run has exactly the decorations
\* of its active styles, whatever the order of the labels in its style.
C4_CodeOutermost ==
    pc = "rendered" =>
        /\ NestsInOrder(result, CodeOutermost, <<>>)
        /\ OneStyleRun =>
              /\ DecorationOpens(result) = SelectSeq(CodeOutermost, IsActive)
              /\ DecorationCloses(result) = SelectSeq(SpanOutermost, IsActive)

\* A run with all seven labels, the legacy ones first, in a list item.
C4_Witness ==
    /\ pc = "rendered"
    /\ OneStyleRun
    /\ TheBlock.type = UNORDERED_LIST_ITEM
    /\ TheStyle = <<"TEXT_RED", "BACKGROUND_BLUE", CODE, STRIKETHROUGH, ITALIC, UNDERLINE, BOLD>>
    /\ DecorationOpens(result) = CodeOutermost

\* The style of the run is exactly bold, italic and underline.
BoldItalicUnderline ==
    /\ OneStyleRun
    /\ Len(TheStyle) = 3
    /\ \A label \in {BOLD, ITALIC, UNDERLINE} : Has(TheStyle, label)
    /\ TheBlock.type # CHECKABLE_LIST_ITEM

TheContent == encodeContent(preserveWhitespace(TheBlock.text))

\* C5 as stated: bold, italic and underline together render as
\* <ins><em><strong>text</strong></em></ins>.
C5_AsStated ==
    (pc = "rendered" /\ BoldItalicUnderline) =>
        result = <<"<ins>", "<em>", "<strong>">> \o TheContent
                 \o <<"</strong>", "</em>", "</ins>">>

\* C5, amended: bold, italic and underline together render as
\* <em><ins><strong>text</strong></ins></em>, <strong> innermost, <ins> around
\* it and <em> around <ins>, whatever order the three styles were set in.
C5_EmInsStrong ==
    (pc = "rendered" /\ BoldItalicUnderline) =>
        result = <<"<em>", "<ins>", "<strong>">> \o TheContent
                 \o <<"</strong>", "</ins>", "</em>">>

\* The three styles, set with italic first and bold last.
C5_Witness ==
    /\ pc = "rendered"
    /\ BoldItalicUnderline
    /\ TheStyle = <<ITALIC, UNDERLINE, BOLD>>
    /\ result[1] = "<em>"

\* The whole text of the block carries one entity, of the given type.
OneEntityPiece(entityType) ==
    /\ TheBlock.text # <<>>
    /\ \A i \in 1..Len(TheBlock.text) :
          TheBlock.characterList[i].entity = TheBlock.characterList[1].entity
    /\ TheBlock.characterList[1].entity # Null
    /\ entityMap[TheBlock.characterList[1].entity].type = entityType

TheData == entityMap[TheBlock.characterList[1].entity].data

Entities == {AMP, LT, GT, QUOT}

RECURSIVE ValuesEscapedFrom(_, _, _)
\* Reading str from position p, inside an attribute value or not: every
\* attribute value, from the =" that opens it to the next ", is free of "<"
\* and ">", each "&" in it begins an entity, and no quote is left over.
ValuesEscapedFrom(str, p, inValue) ==
    IF p > Len(str) THEN ~inValue
    ELSE IF ~inValue
         THEN IF str[p] = "=\"" THEN ValuesEscapedFrom(str, p + 1, TRUE)
              ELSE str[p] # "\"" /\ ValuesEscapedFrom(str, p + 1, FALSE)
    ELSE IF str[p] = "\"" THEN ValuesEscapedFrom(str, p + 1, FALSE)
    ELSE /\ str[p] \notin {"<", ">"}
         /\ str[p] = "&" => \E e \in Entities : StartsWith(SubSeq(str, p, Len(str)), e)
         /\ ValuesEscapedFrom(str, p + 1, TRUE)

\* C8: no attribute value written into an entity tag, of a link or of an
\* image, contains an unescaped quote, "&", "<" or ">".
C8_AttrValuesEscaped ==
    pc = "rendered" => ValuesEscapedFrom(result, 1, FALSE)

Malformed == << <<"!", <<>> >> >>

RECURSIVE FirstQuote(_, _)
\* The position of the first quote of str from position p on, 0 if none.
FirstQuote(str, p) ==
    IF p > Len(str) THEN 0
    ELSE IF str[p] = "\"" THEN p ELSE FirstQuote(str, p + 1)

RECURSIVE AttrsFrom(_, _)
\* The attributes <<name, value>> of the tag whose attribute list starts at
\* position p of str, read up to the end of the tag.
AttrsFrom(str, p) ==
    IF p > Len(str) THEN Malformed
    ELSE IF str[p] \in {">", " />"} THEN <<>>
    ELSE IF str[p] = " " /\ p + 2 <= Len(str) /\ str[p + 2] = "=\""
              /\ FirstQuote(str, p + 3) # 0
         THEN LET q == FirstQuote(str, p + 3)
                  rest == AttrsFrom(str, q + 1)
              IN  IF rest = Malformed THEN Malformed
                  ELSE << <<str[p + 1], SubSeq(str, p + 3, q - 1)>> >> \o rest
    ELSE Malformed

\* The link field table of the claim.
LinkAttrOf(dataKey) == IF dataKey = "url" THEN "href" ELSE dataKey
IsLinkField(field) ==
    /\ field[1] \in {"url", "rel", "target", "title"}
    /\ field[2] \notin {JsNull, JsUndefined}

\* C9: the anchor of a LINK entity has one attribute for each data field
\* that is in the link field table and has a non-null value, named as the
\* table says and holding the escaped value, and no other attribute.
C9_LinkAttrs ==
    (pc = "rendered" /\ OneEntityPiece(LINK)) =>
        LET fields == SelectSeq(TheData, IsLinkField)
        IN  /\ result[1] = "<a"
            /\ result[Len(result)] = "</a>"
            /\ AttrsFrom(result, 2) =
                  [i \in 1..Len(fields) |->
                      <<LinkAttrOf(fields[i][1]), encodeAttr(fields[i][2])>>]

\* A link with a url, a null rel and a field that is not in the table.
C9_Witness ==
    /\ pc = "rendered"
    /\ OneEntityPiece(LINK)
    /\ TheData = << <<"url", <<"x">> >>, <<"rel", JsNull>>, <<"class", <<"x">> >> >>
    /\ result = <<"<a", " ", "href", "=\"", "x", "\"", ">", "<strong>", "a", "</strong>",
                  "</a>">>

\* C10: an entity piece of type IMAGE renders exactly as
\* <a href="H"><img src="S" alt="A" /></a>, H, S and A the values of the
\* data fields data-original-url, src and alt as a template string prints
\* them; nothing of the text or of its styles or checkbox appears.
C10_ImageExactly ==
    (pc = "rendered" /\ OneEntityPiece(IMAGE)) =>
        result = <<"<a", " ", "href", "=\"">>
                 \o Interpolate(Get(TheData, "data-original-url"))
                 \o <<"\"", ">", "<img", " ", "src", "=\"">>
                 \o Interpolate(Get(TheData, "src"))
                 \o <<"\"", " ", "alt", "=\"">>
                 \o Interpolate(Get(TheData, "alt"))
                 \o <<"\"", " />", "</a>">>

\* Two characters of different styles under one image, in a checked item.
C10_Witness ==
    /\ pc = "rendered"
    /\ OneEntityPiece(IMAGE)
    /\ TheBlock.type = CHECKABLE_LIST_ITEM
    /\ "k1" \in DOMAIN checkedStateMap
    /\ Len(TheBlock.text) = 2
    /\ TheBlock.characterList[1].style = <<BOLD>>
    /\ TheBlock.characterList[2].style = <<CODE, ITALIC>>
    /\ result = <<"<a", " ", "href", "=\"", "h", "\"", ">", "<img", " ", "src", "=\"", "s",
                  "\"", " ", "alt", "=\"", "l", "\"", " />", "</a>">>

-----------------------------------------------------------------------------
(* The checkbox of a checkable list item *)

CheckboxOpen == "<input type=\"checkbox\" "
CheckedAttr == "checked "

Count(str, tok) == Len(SelectSeq(str, LAMBDA t : t = tok))

\* The checked-state map holds true for the key of the block.
HoldsTrue ==
    TheBlock.key \in DOMAIN checkedStateMap /\ checkedStateMap[TheBlock.key]

\* Character i starts a style run whose content is rendered: it differs in
\* style or entity from the character before it and carries no image entity.
StartsRenderedRun(i) ==
    LET meta == TheBlock.characterList
    IN  /\ i = 1 \/ meta[i] # meta[i - 1]
        /\ meta[i].entity # Null => entityMap[meta[i].entity].type # IMAGE

\* C11 as stated: a checkable list item renders its checkbox, with the
\* checked attribute if and only if the checked-state map holds true for the
\* key of the block; a block of any other type renders no checkbox.
C11_AsStated ==
    pc = "rendered" =>
        IF TheBlock.type = CHECKABLE_LIST_ITEM
        THEN /\ Count(result, CheckboxOpen) > 0
             /\ Count(result, CheckedAttr) > 0 <=> HoldsTrue
        ELSE Count(result, CheckboxOpen) = 0 /\ Count(result, CheckedAttr) = 0

\* C11, amended: every checkbox that is rendered carries the checked
\* attribute if and only if the checked-state map holds true for the key of
\* the block.  A checkable list item with text renders one checkbox in front
\* of every style run whose content is rendered (none for the runs of an
\* image entity); with empty text it renders the line break and no checkbox.
\* A block of any other type renders no checkbox.
C11_CheckedIffTrue ==
    pc = "rendered" =>
        /\ Count(result, CheckboxOpen) =
              IF TheBlock.type = CHECKABLE_LIST_ITEM
              THEN Cardinality({i \in 1..Len(TheBlock.text) : StartsRenderedRun(i)})
              ELSE 0
        /\ Count(result, CheckedAttr) =
              IF HoldsTrue THEN Count(result, CheckboxOpen) ELSE 0
        /\ \A p \in 1..Len(result) :
              /\ result[p] = CheckedAttr => p > 1 /\ result[p - 1] = CheckboxOpen
              /\ result[p] = CheckboxOpen =>
                    /\ p < Len(result)
                    /\ result[p + 1] = (IF HoldsTrue THEN CheckedAttr ELSE "/>")
        /\ (TheBlock.type = CHECKABLE_LIST_ITEM /\ TheBlock.text = <<>>) => result = BREAK

\* A checkable list item of two style runs whose key maps to true: two
\* checked checkboxes.
C11_Witness ==
    /\ pc = "rendered"
    /\ TheBlock.type = CHECKABLE_LIST_ITEM
    /\ HoldsTrue
    /\ Len(TheBlock.text) = 2
    /\ TheBlock.characterList[1].style # TheBlock.characterList[2].style
    /\ Count(result, CheckboxOpen) = 2
    /\ Count(result, CheckedAttr) = 2

-----------------------------------------------------------------------------
(* Documents of sample blocks *)

MaxFollowers == 1

AllBlockTypes ==
    {UNSTYLED, HEADER_ONE, HEADER_TWO, HEADER_THREE, HEADER_FOUR, HEADER_FIVE,
     HEADER_SIX, UNORDERED_LIST_ITEM, ORDERED_LIST_ITEM, CHECKABLE_LIST_ITEM,
     BLOCKQUOTE, CODE_BLOCK, ATOMIC}

\* The contents tried for the first block: no text, a letter, a space, a bold
\* letter and a letter that carries the image entity "e2".
SampleContents ==
    {[text |-> <<>>, characterList |-> <<>>],
     [text |-> <<"a">>, characterList |-> PlainChars(<<"a">>)],
     [text |-> <<SP>>, characterList |-> PlainChars(<<SP>>)],
     [text |-> <<"a">>, characterList |-> <<[style |-> <<BOLD>>, entity |-> Null]>>],
     [text |-> <<"a">>, characterList |-> <<[style |-> NoStyle, entity |-> "e2"]>>]}

SampleBlock(key, type, depth, content) ==
    [key |-> key, type |-> type, depth |-> depth, text |-> content.text,
     characterList |-> content.characterList]

FollowerTypes == {UNSTYLED, UNORDERED_LIST_ITEM}

\* A first block of any type and content, then up to MaxFollowers blocks at
\* depth 0 or 1, each with or without text.
InitSamples ==
    /\ build = STATE_TO_HTML
    /\ \E ty \in AllBlockTypes, c \in SampleContents, n \in 0..MaxFollowers :
          \E f \in [1..n -> FollowerTypes \X {0, 1} \X BOOLEAN] :
              blocks = <<SampleBlock("k1", ty, 0, c)>>
                       \o [i \in 1..n |->
                              PlainBlock(BlockKeys[i + 1], f[i][1], f[i][2],
                                         IF f[i][3] THEN <<>> ELSE <<"a">>)]
    /\ checkedStateMap = <<>>
    /\ entityMap = RunRegistry
    /\ NotStarted

SpecSamples == InitSamples /\ [][Next]_vars

RECURSIVE ContentEnd(_, _)
\* The first position from q on that holds a newline or a structural end tag:
\* the position after the content that starts at q.
ContentEnd(str, q) ==
    IF q > Len(str) THEN q
    ELSE IF str[q] = NL \/ IsCloseTag(str[q]) THEN q
    ELSE ContentEnd(str, q + 1)

\* The position in str of the content of the k-th block started in str.
ContentStart(str, k) == BlockStarts(str)[k] + Len(getTags(blocks[k].type))

\* The content of the k-th block started in str.
ContentOf(str, k) ==
    SubSeq(str, ContentStart(str, k), ContentEnd(str, ContentStart(str, k)) - 1)

\* C12: in the output every block that has been started has, right after its
\* start tags, a content that is not empty and that is followed by the end tag
\* of the block (or by the newline before its nested list); the content of a
\* block whose text is empty is the line break <br/>, for every block type.
C12_Placeholder ==
    LET str == Join(output)
    IN  \A k \in 1..Len(BlockStarts(str)) :
            LET tags == getTags(blocks[k].type)
                e == ContentEnd(str, ContentStart(str, k))
            IN  /\ ContentOf(str, k) # <<>>
                /\ blocks[k].text = <<>> => ContentOf(str, k) = BREAK
                /\ e <= Len(str)
                /\ str[e] = NL \/ str[e] = CloseTag[tags[Len(tags)]]

\* A code block without text, rendered as <pre><code><br/></code></pre>.
C12_Witness ==
    /\ pc = "done"
    /\ Len(blocks) = 1
    /\ blocks[1].type = CODE_BLOCK
    /\ blocks[1].text = <<>>
    /\ result = <<OpenTag["pre"], OpenTag["code"]>> \o BREAK
                \o <<CloseTag["code"], CloseTag["pre"]>>

-----------------------------------------------------------------------------
(* The walk over the blocks *)

BlockTexts == <<"a", "b", "c", "d", "e">>

\* The document of an outline whose i-th block has the i-th letter as text.
LetteredDocument(outline) ==
    [i \in 1..Len(outline) |->
        PlainBlock(BlockKeys[i], outline[i][1], outline[i][2], <<BlockTexts[i]>>)]

\* The walk distinguishes list items from other blocks (canHaveDepth), the two
\* list tags (getListTag) and blocks of one tag from blocks of two (getTags).
WalkTypes == {UNSTYLED, UNORDERED_LIST_ITEM, ORDERED_LIST_ITEM, CODE_BLOCK}
WalkOutlines ==
    UNION {[1..n -> WalkTypes \X (0..MaxDepth)] : n \in 0..MaxBlocks}

InitLettered ==
    /\ build = STATE_TO_HTML
    /\ \E outline \in WalkOutlines : blocks = LetteredDocument(outline)
    /\ checkedStateMap = <<>>
    /\ entityMap = <<>>
    /\ NotStarted

\* generate() runs to completion: whichever step is possible is taken (weak
\* fairness of each step; at most one is possible in a state).  For the steps
\* of the loops the fairness is written out, []<>(not enabled) \/ []<>(taken),
\* with the guard of the step for its ENABLED: under its guard each of them
\* is defined and changes the cursor, the suspended calls or pc.
SpecWalk ==
    /\ InitLettered
    /\ [][Next]_vars
    /\ WF_vars(generateBegin)
    /\ \/ []<>(~(pc = "loop" /\ LoopCondition))
       \/ []<><<processBlock>>_vars
    /\ \/ []<>(~(pc = "loop" /\ stack # <<>> /\ ~LoopCondition))
       \/ []<><<processBlocksAtDepthReturn>>_vars
    /\ \/ []<>(~(pc = "loop" /\ stack = <<>> /\ ~LoopCondition))
       \/ []<><<generateEnd>>_vars

\* The sequence str ends with the sequence suffix.
EndsWith(str, suffix) ==
    /\ Len(suffix) <= Len(str)
    /\ SubSeq(str, Len(str) - Len(suffix) + 1, Len(str)) = suffix

\* The start tags written so far are those of the blocks before the cursor,
\* one for each, in document order, each with the text of its block at the
\* end of its content.
StartedInOrder(str) ==
    LET starts == BlockStarts(str)
    IN  /\ Len(starts) = currentBlock
        /\ \A k \in 1..Len(starts) :
              /\ str[starts[k]] = OpenTag[getTags(blocks[k].type)[1]]
              /\ EndsWith(ContentOf(str, k), blocks[k].text)

\* C13: generate() terminates; the cursor never decreases and every call of
\* processBlock advances it by at least one; and every block of the document
\* has its start tag written exactly once, in document order: while the walk
\* runs the blocks started are exactly those before the cursor, and the
\* returned markup starts every block of the document once and in order.
C13_WalksOnce ==
    /\ <>(pc = "done")
    /\ [][/\ currentBlock' >= currentBlock
          /\ processBlock => currentBlock' >= currentBlock + 1]_vars
    /\ [](/\ currentBlock <= Len(blocks)
          /\ pc = "loop" => StartedInOrder(Join(output))
          /\ pc = "done" => /\ currentBlock = Len(blocks)
                            /\ StartedInOrder(result))

\* A list item, the item nested in it and a block after them, all rendered.
C13_Witness ==
    /\ pc = "done"
    /\ Len(blocks) = 3
    /\ blocks[1].type = UNORDERED_LIST_ITEM /\ blocks[1].depth = 0
    /\ blocks[2].type = ORDERED_LIST_ITEM /\ blocks[2].depth = 1
    /\ blocks[3].type = UNSTYLED /\ blocks[3].depth = 0
    /\ currentBlock = 3
    /\ Len(BlockStarts(result)) = 3
    /\ \A k \in 1..3 : ContentOf(result, k) = <<BlockTexts[k]>>
    /\ blocks[3].text = <<"c">>

=============================================================================
